---- MODULE Spec2Model ----
(***************************************************************************)
(* HowdyTTS ESP32P4 integration server (src/howdytts_esp32_server.py) and  *)
(* the stream tools (src/tools).                                           *)
(*                                                                         *)
(* The specifications share the definitions of this module:                *)
(*   Spec         - the ingress thread (receive_audio) and the processing  *)
(*                  loop (process_audio_stream) around the handoff queue;  *)
(*   SpecSend     - send_audio called on replies of bounded length;        *)
(*   SpecCodec    - the datagram header parser and serializer on bytes;    *)
(*   SpecIngress  - the receive loop on malformed datagrams and socket     *)
(*                  errors;                                                *)
(*   SpecShutdown - SIGINT, run()'s finally clause and stop(), with the    *)
(*                  fairness of two running threads;                       *)
(*   SpecWrap     - send_audio around chunk 65536 of a long reply;         *)
(*   SpecRebind   - receive_audio on well- and ill-formed datagrams        *)
(*                  between the chunks of a reply;                         *)
(*   SpecStartup  - the constructor with the start of the advertisement,   *)
(*                  followed by the run and the shutdown;                  *)
(*   SpecStopTwice - the shutdown with a second stop of the advertisement; *)
(*   SpecValidator - the reply session the validator sends on a WebSocket; *)
(*   SpecEndpoint - websocket_endpoint of the test server: one connection  *)
(*                  and its messages, beside clients that come and go;     *)
(*   SpecSession  - the session state machine of the receiver of a reply   *)
(*                  stream, which is described in the specification and    *)
(*                  has no code in src/.                                   *)
(*                                                                         *)
(* Time.  The processing loop reads the clock only as a difference,        *)
(* time.time() - last_audio_time, so the model keeps that difference       *)
(* (silence_ms) instead of the two readings.  Time passes in the model     *)
(* where the code waits: the 20 ms queue.get timeout, the external         *)
(* speech-to-text call and the 18 ms sleep between reply chunks.           *)
(* received, arrival_gap_ms, group_frames, group_samples, group_starts,    *)
(* group_handed,                                                           *)
(* long_gaps, idle_polls, emitted, last_discard, discarded, calls,         *)
(* call_client and wire_count are history variables: they record what      *)
(* arrived at the socket and what was handed on.  The program's steps do   *)
(* not read them; only the bounds and the pacing of the client             *)
(* (ClientSilent) do.                                                      *)
(***************************************************************************)
EXTENDS Integers, Sequences, FiniteSets

\* ------------------------------------------------------------ bounds
\* Datagrams the ingress thread receives in one behaviour of Spec.
MaxFrames == 131
\* Frames waiting in the (unbounded) handoff queue in one state of Spec.
MaxQueue == 2
\* Pauses of the client that reach the silence threshold, in one behaviour.
MaxLongGaps == 3

\* ------------------------------------------------- program constants
sample_rate == 16000
silence_threshold_ms == 500
\* min_audio_length = 0.5 s, in milliseconds
min_audio_length_ms == 500
\* queue.get(timeout=0.02)
PollTimeoutMs == 20
\* recvfrom(256)
MAX_PACKET_SIZE == 256
\* struct '<IHH': 4 + 2 + 2 bytes
HeaderSize == 8
chunk_size == 320
\* time.sleep(0.018)
SleepMs == 18
\* int(self.sample_rate * duration), duration = 1.0
TtsReplyLen == 16000

Min(a, b) == IF a < b THEN a ELSE b

\* Ages are compared with the threshold only; they saturate above it.
AgeCap == silence_threshold_ms + 2 * PollTimeoutMs
Older(age, ms) == Min(AgeCap, age + ms)

\* Field ranges of struct '<IHH'.  A clock reading is [sec, ms], seconds
\* and milliseconds since the epoch: the reading in milliseconds,
\* sec * 1000 + ms, exceeds the integers of the model checker.  The largest
\* uint32, 4294967295, is the reading [sec |-> 4294967, ms |-> 295].
UInt32MaxSec == 4294967
UInt32MaxMs == 295
UInt16Max == 65535

AddMs(c, d) == [sec |-> c.sec + (c.ms + d) \div 1000, ms |-> (c.ms + d) % 1000]
FitsUInt32(c) ==
    /\ c.sec >= 0
    /\ c.sec < UInt32MaxSec \/ (c.sec = UInt32MaxSec /\ c.ms <= UInt32MaxMs)

None == "None"

VARIABLES
    \* ESP32AudioServer
    client_address,   \* None or the address of the last datagram's sender
    audio_queue,      \* sequence of frames [id, n]: n int16 samples each
    \* process_audio_stream locals
    pc,               \* where the main thread is: "poll" | "stt" | "send" in
                      \* the loop, before it in __init__, after it in run()
    audio_buffer,     \* sequence of frames; its samples are their n's in order
    silence_ms,       \* time.time() - last_audio_time, in ms (saturating)
    processing,
    \* send_audio locals
    send_pc,          \* "idle" | "loop" | "returned" | "raised"
    audio_samples,    \* the reply after conversion: [dtype, len, wave]
    offset,           \* i of range(0, len(audio_samples), chunk_size)
    sequence,
    sent,             \* packets handed to sendto by the current call
    clock_ms,         \* int(time.time() * 1000) as send_audio reads it: [sec, ms]
    \* history
    received,         \* datagrams received so far
    arrival_gap_ms,   \* time since the last frame was put on the queue
    group_frames,     \* frames of the current arrival group (a new group
                      \* starts after a gap >= the silence threshold)
    group_samples,    \* samples of the current arrival group
    group_starts,     \* ids of the frames that arrived more than the silence
                      \* threshold after the frame before them
    group_handed,     \* an utterance holding frames of this group was handed on
    long_gaps,        \* gaps after a frame that reached the silence threshold
    idle_polls,       \* queue.Empty timeouts since the last handoff (0, 1, 2)
    emitted,          \* utterances handed to speech-to-text (frame ids)
    last_discard,     \* samples of the buffer discarded last (0: none yet)
    discarded,        \* buffers discarded as too short (frame ids)
    calls,            \* calls of send_audio so far
    call_client,      \* client_address when the current call began
    wire_count,       \* packets handed to sendto so far, over all calls
    \* SpecCodec: one datagram through the parser and the serializer
    codec_pc,         \* "received" | "decoded" | "failed" | "done"
    packet,           \* the bytes of the datagram
    decoded,          \* [timestamp, sequence, data_size, samples] once parsed
    reencoded,        \* the bytes the serializer makes of decoded
    \* the threads and what they hold
    running,          \* the Event the receive loop tests
    sock_open,        \* the UDP socket has not been closed
    recv_pc,          \* receive thread: "unstarted" | "loop" | "inflight" |
                      \* "exited"
    mdns,             \* the service at the discovery daemon: "none" |
                      \* "advertising" | "stopped"
    sigint,           \* SIGINT was delivered to the process
    receive_errors,   \* logger.error calls of the receive loop (line 69)
    process_errors,   \* logger.error calls of the processing loop (line 273)
    \* HowdyTTSESP32Integration: the discovery advertisement
    zeroconf,         \* self.zeroconf is set (not None)
    service_info,     \* self.service_info is set (not None)
    mdns_enabled,
    unregister_calls, \* calls of zeroconf.unregister_service so far
    start_error,      \* the call of _start_mdns_advertising that raised
    \* ESP32AudioValidator.validate_websocket_tts_handler
    val_pc,           \* "idle" | "start" | "chunk" | "end" | "wait" |
                      \* "passed" | "failed"
    chunk_seq,        \* the loop variable of the chunk loop
    session_id,       \* int(time.time()) of "test_session_<n>"
    error_count,
    ws_sent,          \* the messages handed to websocket.send, in order
    \* the session state of the receiver of a reply stream
    sessions,         \* the reply sessions that are Streaming, as
                      \* [session_id, chunks_sent]; none: the state is Idle
    response,         \* the response to the last message: "none" | "ok" |
                      \* "error"
    \* HowdyTTSTestServer.websocket_endpoint, one connection
    ws_open,          \* the handler is in its `async for` loop
    ws_replies,       \* the messages sent on the connection, in order
    \* HowdyTTSTestServer, all connections
    websocket_clients, \* the connected clients in the order they came, as
                      \* [ws, session_id]; ws 0 is the connection above
    time_s            \* int(time.time()) of the test server

servervars == <<client_address, audio_queue>>
loopvars == <<pc, audio_buffer, silence_ms, processing>>
sendvars == <<send_pc, audio_samples, offset, sequence, sent, clock_ms>>
histvars == <<received, arrival_gap_ms, group_frames, group_samples,
              group_starts,
              group_handed, long_gaps, idle_polls, emitted, last_discard,
              discarded, calls, call_client, wire_count>>
codecvars == <<codec_pc, packet, decoded, reencoded>>
lifevars == <<running, sock_open, recv_pc, mdns, sigint, receive_errors,
              process_errors>>
mdnsvars == <<zeroconf, service_info, mdns_enabled, unregister_calls,
              start_error>>
validatorvars == <<val_pc, chunk_seq, session_id, error_count, ws_sent>>
sessionvars == <<sessions, response>>
endpointvars == <<ws_open, ws_replies, websocket_clients, time_s>>
streamvars == <<validatorvars, sessionvars, endpointvars>>
vars == <<servervars, loopvars, sendvars, histvars, codecvars, lifevars,
          mdnsvars, streamvars>>

Addrs == {"esp32", "other"}

\* --------------------------------------------------------- samples
\* A reply as the text-to-speech step returns it: [dtype, len].  Its samples
\* are a fixed waveform of the index; a float64 sample is FloatWave/FloatDen.
FloatDen == 1000
Int16Scale == 32767

IntWave(k) == (((k % 65536) * 1009 + 17) % 65536) - 32768
FloatWave(k) == ((k * 37 + 5) % (2 * FloatDen + 1)) - FloatDen
InputSample(r, k) == IF r.dtype = "int16" THEN IntWave(k) ELSE FloatWave(k)

Trunc(a, b) == IF a >= 0 THEN a \div b ELSE -((-a) \div b)

\* (audio_samples * 32767).astype(np.int16) unless the dtype is int16 already
ToInt16(dtype, v) == IF dtype = "int16" THEN v ELSE Trunc(v * Int16Scale, FloatDen)
PcmSample(r, k) == ToInt16(r.dtype, InputSample(r, k))

\* --------------------------------------------------- receive_audio
\* A datagram on the wire: [addr, wire_len, data_size]; recvfrom returns at
\* most MAX_PACKET_SIZE bytes of it.
DataLen_Whole(d) == d.wire_len
DataLen(d) == Min(d.wire_len, MAX_PACKET_SIZE)
\* audio_data = data[8:8+data_size]
PayloadLen(d) == Min(d.data_size, DataLen(d) - HeaderSize)
\* len(data) >= 8 and np.frombuffer accepts the payload
Decodes(d) == DataLen(d) >= HeaderSize /\ PayloadLen(d) % 2 = 0
FrameOf(d, k) == [id |-> k, n |-> PayloadLen(d) \div 2]

\* The arrival of one more frame, as the history variables record it.
NoteArrival(n) ==
    /\ arrival_gap_ms' = 0
    /\ IF group_frames = 0 \/ arrival_gap_ms >= silence_threshold_ms
       THEN /\ group_frames' = 1
            /\ group_samples' = n
            /\ group_handed' = FALSE
       ELSE /\ group_frames' = group_frames + 1
            /\ group_samples' = group_samples + n
            /\ UNCHANGED group_handed
    /\ group_starts' =
          IF group_frames > 0 /\ arrival_gap_ms > silence_threshold_ms
          THEN group_starts \cup {received + 1} ELSE group_starts
    /\ UNCHANGED long_gaps

\* After ms more the gap since the last frame reaches the silence threshold.
ReachesThreshold(ms) ==
    /\ group_frames > 0
    /\ arrival_gap_ms < silence_threshold_ms
    /\ Older(arrival_gap_ms, ms) >= silence_threshold_ms

\* Time ms passes with no frame arriving.
NoteSilence(ms) ==
    /\ arrival_gap_ms' = Older(arrival_gap_ms, ms)
    /\ long_gaps' = IF ReachesThreshold(ms) THEN long_gaps + 1 ELSE long_gaps

\* Lines 53-54: if self.client_address != addr: self.client_address = addr
\* Mutant: only the first sender is ever bound.
Rebind_FirstOnly(cur, addr) == IF cur = None THEN addr ELSE cur
Rebind(cur, addr) == IF cur # addr THEN addr ELSE cur
\* Mutant: the endpoint is saved only after the datagram was parsed.
SavesAddress_Parsed(d) == d.wire_len >= HeaderSize /\ d.data_size % 2 = 0
\* Lines 52-55 come before the length test of line 58: the address of
\* every datagram is saved.
SavesAddress(d) == TRUE

\* queue.Queue() has maxsize 0: no limit, put never blocks.
QueueMaxsize == 0
\* Mutant: the queue holds one frame and put blocks on a full queue.
PutBlocks_Bounded(q) == Len(q) >= 1
PutBlocks(q) == QueueMaxsize > 0 /\ Len(q) >= QueueMaxsize

\* np.frombuffer raises ValueError: the payload bytes are no whole samples.
RaisesValueError(d) == DataLen(d) >= HeaderSize /\ PayloadLen(d) % 2 # 0

\* The loop test passes, or the thread was inside recvfrom already when the
\* flag was cleared.
ReceiverInLoop == recv_pc = "inflight" \/ (recv_pc = "loop" /\ running)

\* One iteration of the receive loop that got datagram d.  (An iteration
\* that ends with socket.timeout changes nothing and is left out.)
receive_audio(d) ==
    /\ ReceiverInLoop
    /\ sock_open
    /\ received < MaxFrames
    /\ Len(audio_queue) < MaxQueue
    /\ Decodes(d) => ~PutBlocks(audio_queue)
    /\ recv_pc' = "loop"
    /\ received' = received + 1
    /\ client_address' = IF SavesAddress(d)
                         THEN Rebind(client_address, d.addr)
                         ELSE client_address
    /\ receive_errors' =
          IF RaisesValueError(d) THEN receive_errors + 1 ELSE receive_errors
    /\ IF Decodes(d)
       THEN /\ audio_queue' = Append(audio_queue, FrameOf(d, received + 1))
            /\ NoteArrival(PayloadLen(d) \div 2)
       ELSE UNCHANGED <<audio_queue, arrival_gap_ms, group_frames,
                        group_samples, group_starts, group_handed, long_gaps>>
    /\ UNCHANGED <<loopvars, sendvars, idle_polls, emitted,
                   last_discard, discarded,
                   calls, call_client, wire_count, codecvars,
                   mdnsvars, streamvars, running,
                   sock_open, mdns, sigint, process_errors>>

\* One iteration of the receive loop in which recvfrom raises an error other
\* than socket.timeout: it is logged at line 69 and the loop goes on.
SocketError ==
    /\ ReceiverInLoop
    /\ recv_pc' = "loop"
    /\ receive_errors' = receive_errors + 1
    /\ UNCHANGED <<servervars, loopvars, sendvars, histvars, codecvars,
                   mdnsvars, streamvars,
                   running, sock_open, mdns, sigint, process_errors>>

\* ------------------------------------------------ header and payload
\* Bytes are 0..255.  struct '<H': two bytes, little-endian.
\* Mutant: the 16-bit fields are read big-endian.
UnpackU16_BigEndian(b1, b2) == 256 * b1 + b2
UnpackU16(b1, b2) == b1 + 256 * b2
PackU16(v) == <<v % 256, v \div 256>>

\* struct '<I': four bytes, little-endian, as a clock reading [sec, ms].
\* With lo and hi the 16-bit halves the value is
\* 65536 * hi + lo = 1000 * (65 * hi) + (536 * hi + lo).
UnpackU32(b1, b2, b3, b4) ==
    LET lo == b1 + 256 * b2
        hi == b3 + 256 * b4
    IN  [sec |-> 65 * hi + (536 * hi + lo) \div 1000,
         ms |-> (536 * hi + lo) % 1000]
\* With c.sec = 65536 * a + b the value is
\* 1000 * c.sec + c.ms = 65536 * (1000 * a) + (1000 * b + c.ms).
PackU32(c) ==
    LET a == c.sec \div 65536
        b == c.sec % 65536
        hi == 1000 * a + (1000 * b + c.ms) \div 65536
        lo == (1000 * b + c.ms) % 65536
    IN  <<lo % 256, lo \div 256, hi % 256, hi \div 256>>

\* np.frombuffer(audio_data, dtype=np.int16): pairs of bytes, little-endian,
\* two's complement.
Int16Of(b1, b2) ==
    IF b1 + 256 * b2 >= 32768 THEN b1 + 256 * b2 - 65536 ELSE b1 + 256 * b2
SamplesOf(bytes) ==
    [k \in 1..(Len(bytes) \div 2) |-> Int16Of(bytes[2 * k - 1], bytes[2 * k])]
\* chunk.tobytes()
BytesOf(samples) ==
    [k \in 1..(2 * Len(samples)) |->
        LET v == samples[(k + 1) \div 2] % 65536
        IN  IF k % 2 = 1 THEN v % 256 ELSE v \div 256]

\* Lines 58-63.  A datagram of fewer than 8 bytes is not parsed.
TooShortToParse(data) == Len(data) < HeaderSize
\* audio_data = data[8:8+data_size]
AudioData(data) ==
    SubSeq(data, HeaderSize + 1,
           Min(Len(data), HeaderSize + UnpackU16(data[7], data[8])))
\* np.frombuffer raises ValueError on a buffer that is not a whole number of
\* int16 elements.
FrombufferRaises(bytes) == Len(bytes) % 2 # 0
\* The header fields and the samples of a datagram that is parsed.
ParsePacket(data) ==
    [timestamp |-> UnpackU32(data[1], data[2], data[3], data[4]),
     sequence |-> UnpackU16(data[5], data[6]),
     data_size |-> UnpackU16(data[7], data[8]),
     samples |-> SamplesOf(AudioData(data))]

\* Lines 96-97: header = struct.pack('<IHH', timestamp, sequence,
\* len(chunk) * 2); packet = header + chunk.tobytes()
SerializePacket(timestamp, seq, chunk) ==
    PackU32(timestamp) \o PackU16(seq) \o PackU16(Len(chunk) * 2)
        \o BytesOf(chunk)

\* ------------------------------------------------------ send_audio
\* Mutant: the unbound client is not detected.
NoClient_Never == FALSE
\* if self.client_address is None
NoClient == client_address = None

ChunkLen(r, i) == Min(chunk_size, r.len - i)
\* chunk = audio_samples[i:i+chunk_size], padded with zeros to chunk_size
PaddedChunk(r, i) ==
    [k \in 1..chunk_size |->
        IF k <= ChunkLen(r, i) THEN PcmSample(r, i + k - 1) ELSE 0]
\* len(chunk) * 2, evaluated after the padding
DeclaredSize(r, i) == Len(PaddedChunk(r, i)) * 2

\* struct.pack('<IHH', ...) raises struct.error outside the field ranges
PackRaises(timestamp, seq, size) ==
    \/ ~FitsUInt32(timestamp)
    \/ seq < 0 \/ seq > UInt16Max
    \/ size < 0 \/ size > UInt16Max

\* Entry of send_audio(r) up to the first iteration of its loop.
SendBegin(r) ==
    /\ calls' = calls + 1
    /\ call_client' = client_address
    /\ UNCHANGED wire_count
    /\ IF NoClient
       THEN /\ send_pc' = "returned"
            /\ UNCHANGED <<audio_samples, offset, sequence, sent, clock_ms>>
       ELSE /\ audio_samples' = r
            /\ sequence' = 0
            /\ offset' = 0
            /\ sent' = <<>>
            /\ send_pc' = IF r.len > 0 THEN "loop" ELSE "returned"
            /\ UNCHANGED clock_ms

\* One iteration of the loop of send_audio: pack, sendto, sleep.
SendChunk ==
    LET r == audio_samples
        timestamp == clock_ms
        size == DeclaredSize(r, offset)
    IN  IF PackRaises(timestamp, sequence, size)
        THEN /\ send_pc' = "raised"
             /\ UNCHANGED <<audio_samples, offset, sequence, sent, clock_ms,
                            wire_count>>
        ELSE /\ sent' = Append(sent, [dest |-> client_address,
                                      timestamp |-> timestamp,
                                      sequence |-> sequence,
                                      data_size |-> size,
                                      payload |-> PaddedChunk(r, offset)])
             /\ wire_count' = wire_count + 1
             /\ sequence' = sequence + 1
             /\ clock_ms' = AddMs(clock_ms, SleepMs)
             /\ offset' = offset + chunk_size
             /\ send_pc' = IF offset + chunk_size < r.len
                           THEN "loop" ELSE "returned"
             /\ UNCHANGED audio_samples

\* --------------------------------------------- process_audio_stream
\* The samples of frames lo..hi of a sequence of frames.
RECURSIVE SumN(_, _, _)
SumN(frames, lo, hi) ==
    IF lo > hi THEN 0
    ELSE IF lo = hi THEN frames[lo].n
    ELSE LET mid == (lo + hi) \div 2
         IN  SumN(frames, lo, mid) + SumN(frames, mid + 1, hi)
\* len(audio_buffer)
BufferLen(buf) == SumN(buf, 1, Len(buf))
FrameIds(buf) == [k \in 1..Len(buf) |-> buf[k].id]

\* Mutant: last_audio_time is not refreshed when a frame arrives.
AgeAfterFrame_Stale(age) == age
\* last_audio_time = time.time(): the age of last_audio_time after a frame
AgeAfterFrame(age) == 0
\* silence_duration > self.silence_threshold_ms
SilenceExceeded(s) == s > silence_threshold_ms
\* Mutant: the minimum duration is not checked.
TooShort_Never(buf) == FALSE
\* audio_duration < self.min_audio_length, audio_duration = len / sample_rate
TooShort(buf) == BufferLen(buf) * 1000 < min_audio_length_ms * sample_rate
\* Mutant: the buffer is kept after an utterance was processed.
ClearedBuffer_Kept(buf) == buf
\* audio_buffer = [] after an utterance was processed
ClearedBuffer(buf) == <<>>

\* text_to_speech: one second of a 440 Hz tone, float64
text_to_speech == [dtype |-> "float64", len |-> TtsReplyLen]

\* Lines 275-277: clear the buffer and go back to polling.
FinishUtterance ==
    /\ audio_buffer' = ClearedBuffer(audio_buffer)
    /\ processing' = FALSE
    /\ pc' = "poll"

\* Mutant: the exception is caught by the handler of the loop (line 282)
\* only, which logs it and starts the next iteration.
OnProcessingError_OuterHandler ==
    /\ pc' = "poll"
    /\ process_errors' = process_errors + 1
    /\ UNCHANGED <<audio_buffer, processing>>
\* Lines 272-277: an exception of speech-to-text, process_query,
\* text_to_speech or send_audio is caught and logged, and the statements
\* after the handler clear the buffer.
OnProcessingError ==
    /\ FinishUtterance
    /\ process_errors' = process_errors + 1

\* Mutant: frames are taken from the queue while an utterance is processed.
AtQueueGet_Anywhere == pc \in {"poll", "stt"}
\* The loop is at queue.get, the first statement of an iteration.
AtQueueGet == pc = "poll"
\* Mutant: a frame is put in the buffer twice.
Extend_Twice(buf, frame) == Append(Append(buf, frame), frame)
\* Mutant: a frame is put in front of the buffer.
Extend_InFront(buf, frame) == <<frame>> \o buf
\* audio_buffer.extend(audio_chunk)
Extend(buf, frame) == Append(buf, frame)

\* queue.get returned a frame.
GetFrame ==
    /\ AtQueueGet
    /\ audio_queue # <<>>
    /\ audio_buffer' = Extend(audio_buffer, Head(audio_queue))
    /\ audio_queue' = Tail(audio_queue)
    /\ silence_ms' = AgeAfterFrame(silence_ms)
    /\ processing' = FALSE
    /\ idle_polls' = 0
    /\ UNCHANGED <<pc, client_address, sendvars, received, arrival_gap_ms,
                   group_frames, group_samples,
                   group_starts, group_handed, long_gaps,
                   emitted, last_discard,
                   discarded, calls, call_client, wire_count,
                   codecvars, mdnsvars, streamvars, lifevars>>

\* queue.get timed out after 20 ms: the queue.Empty handler.
GetEmpty ==
    LET silence_duration == Older(silence_ms, PollTimeoutMs) IN
    /\ pc = "poll"
    /\ audio_queue = <<>>
    /\ silence_ms' = silence_duration
    /\ NoteSilence(PollTimeoutMs)
    /\ IF BufferLen(audio_buffer) > 0 /\ SilenceExceeded(silence_duration)
          /\ ~processing
       THEN IF TooShort(audio_buffer)
            THEN /\ audio_buffer' = <<>>
                 /\ last_discard' = BufferLen(audio_buffer)
                 /\ discarded' = Append(discarded, FrameIds(audio_buffer))
                 /\ idle_polls' = Min(2, idle_polls + 1)
                 /\ UNCHANGED <<pc, processing, emitted, group_handed>>
            ELSE /\ processing' = TRUE
                 /\ pc' = "stt"
                 /\ emitted' = Append(emitted, FrameIds(audio_buffer))
                 /\ group_handed' = TRUE
                 /\ idle_polls' = 0
                 /\ UNCHANGED <<audio_buffer, last_discard, discarded>>
       ELSE /\ idle_polls' = Min(2, idle_polls + 1)
            /\ UNCHANGED <<pc, audio_buffer, processing, emitted, group_handed,
                           last_discard, discarded>>
    /\ UNCHANGED <<servervars, sendvars, received, group_frames, group_samples,
                   group_starts,
                   calls, call_client, wire_count,
                   codecvars, mdnsvars, streamvars, lifevars>>

\* Time passes while the loop is inside whisper_model.transcribe.
Elapse ==
    /\ pc = "stt"
    /\ silence_ms' = Older(silence_ms, PollTimeoutMs)
    /\ NoteSilence(PollTimeoutMs)
    /\ UNCHANGED <<servervars, pc, audio_buffer, processing, sendvars, received,
                   group_frames, group_samples,
                   group_starts, group_handed, idle_polls,
                   emitted, last_discard,
                   discarded, calls, call_client, wire_count,
                   codecvars, mdnsvars, streamvars, lifevars>>

SttOutcomes == {"text", "empty", "error"}
\* Mutant: the reply is made whatever transcribe returned.
HasText_Any(outcome) == outcome \in {"text", "empty"}
\* Lines 254-256: text = result["text"].strip(); if text
HasText(outcome) == outcome = "text"

\* transcribe returned (text or nothing) or raised; on text the reply is
\* synthesized and send_audio entered.
SttReturn(outcome) ==
    /\ pc = "stt"
    /\ IF HasText(outcome)
       THEN /\ SendBegin(text_to_speech)
            /\ IF NoClient \/ text_to_speech.len = 0
               THEN FinishUtterance
               ELSE pc' = "send" /\ UNCHANGED <<audio_buffer, processing>>
            /\ UNCHANGED process_errors
       ELSE /\ IF outcome = "error"
               THEN OnProcessingError
               ELSE FinishUtterance /\ UNCHANGED process_errors
            /\ UNCHANGED <<sendvars, calls, call_client, wire_count>>
    /\ UNCHANGED <<servervars, silence_ms, received, arrival_gap_ms,
                   group_frames, group_samples,
                   group_starts, group_handed, long_gaps,
                   idle_polls, emitted, last_discard, discarded, codecvars,
                   mdnsvars, streamvars, running,
                   sock_open, recv_pc, mdns, sigint, receive_errors>>

\* The pack of the current iteration of send_audio raises.
ChunkRaises ==
    PackRaises(clock_ms, sequence, DeclaredSize(audio_samples, offset))
\* The current iteration of send_audio is the last of the call.
LastIteration == ChunkRaises \/ offset + chunk_size >= audio_samples.len

\* One chunk of the reply goes out while the loop is inside send_audio; the
\* call's end (return or struct.error, caught at line 272) clears the buffer.
DispatchChunk ==
    /\ pc = "send"
    /\ send_pc = "loop"
    /\ SendChunk
    /\ IF ChunkRaises
       THEN UNCHANGED <<silence_ms, arrival_gap_ms, long_gaps>>
       ELSE /\ silence_ms' = Older(silence_ms, SleepMs)
            /\ NoteSilence(SleepMs)
    /\ IF ChunkRaises
       THEN OnProcessingError
       ELSE /\ IF LastIteration
               THEN FinishUtterance
               ELSE UNCHANGED <<pc, audio_buffer, processing>>
            /\ UNCHANGED process_errors
    /\ UNCHANGED <<servervars, received, group_frames, group_samples,
                   group_starts,
                   group_handed, idle_polls, emitted, last_discard,
                   discarded, calls,
                   call_client, codecvars,
                   mdnsvars, streamvars, running, sock_open, recv_pc, mdns,
                   sigint, receive_errors>>

\* ------------------------------------------------------------ Spec
\* The wall clock at start: 2025-11-05 00:00:00 UTC.
PipelineClocks == {[sec |-> 1762300800, ms |-> 0]}
\* Datagrams of the capture client: full packets of 124 samples.
SegDatagrams ==
    {[addr |-> "esp32", wire_len |-> MAX_PACKET_SIZE,
      data_size |-> MAX_PACKET_SIZE - HeaderSize]}

\* The fewest full packets that make an utterance of the minimum duration.
MinFrames ==
    (min_audio_length_ms * sample_rate) \div
        (1000 * ((MAX_PACKET_SIZE - HeaderSize) \div 2)) + 1
\* The client sends its frames at most one poll interval apart, and may
\* pause for any time after 1, MinFrames - 1 or MinFrames frames of a group
\* and after its last frame; at most MaxLongGaps of its pauses reach the
\* silence threshold.
PauseAt == {1, MinFrames - 1, MinFrames}
ClientSilent ==
    /\ \/ group_frames = 0
       \/ arrival_gap_ms = 0
       \/ group_frames \in PauseAt
       \/ received = MaxFrames
    /\ ReachesThreshold(PollTimeoutMs) => long_gaps < MaxLongGaps

NoReply == [dtype |-> "int16", len |-> 0]
NoFrame == [timestamp |-> [sec |-> 0, ms |-> 0], sequence |-> 0,
            data_size |-> 0, samples |-> <<>>]

\* No call of send_audio was made yet.
InitSendIdle ==
    /\ client_address = None
    /\ send_pc = "idle"
    /\ audio_samples = NoReply
    /\ offset = 0
    /\ sequence = 0
    /\ sent = <<>>
    /\ calls = 0
    /\ call_client = None
    /\ wire_count = 0

\* The queue, the loop's locals, the histories and the flags at construction.
InitCore(clocks, packets) ==
    /\ audio_queue = <<>>
    /\ audio_buffer = <<>>
    /\ silence_ms = 0
    /\ processing = FALSE
    /\ clock_ms \in clocks
    /\ received = 0
    /\ arrival_gap_ms = 0
    /\ group_frames = 0
    /\ group_samples = 0
    /\ group_starts = {}
    /\ group_handed = FALSE
    /\ long_gaps = 0
    /\ idle_polls = 0
    /\ emitted = <<>>
    /\ last_discard = 0
    /\ discarded = <<>>
    /\ codec_pc = "received"
    /\ packet \in packets
    /\ decoded = NoFrame
    /\ reencoded = <<>>
    /\ running = TRUE
    /\ sock_open = TRUE
    /\ sigint = FALSE
    /\ receive_errors = 0
    /\ process_errors = 0
    /\ unregister_calls = 0

\* __init__ went through with the advertisement registered, and run() has
\* entered process_audio_stream.
InitConstructed ==
    /\ pc = "poll"
    /\ recv_pc = "loop"
    /\ mdns = "advertising"
    /\ zeroconf = TRUE
    /\ service_info = TRUE
    /\ mdns_enabled = TRUE
    /\ start_error = "none"

\* No validation run, no reply session and no message on the connection.
InitStreamIdle ==
    /\ val_pc = "idle"
    /\ chunk_seq = 0
    /\ session_id = 0
    /\ error_count = 0
    /\ ws_sent = <<>>
    /\ sessions = {}
    /\ response = "none"
    /\ ws_open = TRUE
    /\ ws_replies = <<>>
    /\ time_s = 1762300800
    /\ websocket_clients =
           <<[ws |-> 0, session_id |-> [sec |-> time_s, n |-> 0]]>>

\* The server after construction, apart from the state of send_audio.
InitRest(clocks, packets) ==
    /\ InitCore(clocks, packets)
    /\ InitConstructed
    /\ InitStreamIdle

InitWith(clocks, packets) == InitSendIdle /\ InitRest(clocks, packets)

Init == InitWith(PipelineClocks, {<<>>})

Receive == \E d \in SegDatagrams : receive_audio(d)
PollTimeout == ClientSilent /\ GetEmpty
Transcribing == ClientSilent /\ Elapse
Transcribed == \E outcome \in SttOutcomes : SttReturn(outcome)

Next ==
    \/ Receive
    \/ GetFrame
    \/ PollTimeout
    \/ Transcribing
    \/ Transcribed
    \/ DispatchChunk

Spec == Init /\ [][Next]_vars

\* ------------------------------------------- segmentation properties
\* The step hands the buffer to speech-to-text.
Handoff == pc = "poll" /\ pc' = "stt"
\* The step discards the buffer as too short.
Discard == pc = "poll" /\ pc' = "poll" /\ audio_buffer # <<>> /\ audio_buffer' = <<>>
\* The step ends the processing of an utterance.
Finished == pc # "poll" /\ pc' = "poll"
\* The utterance has the minimum duration: len / sample_rate >= 0.5 s.
LongEnough(samples) == samples * 1000 >= min_audio_length_ms * sample_rate

\* C1: frames arrive in groups separated by gaps of at least the silence
\* threshold; every utterance handed to speech-to-text is exactly one such
\* group (its sample count is the group's, and no group is handed twice), and
\* a buffer is dropped only when the group that ends it is below the minimum
\* duration.
C1_OneUtterancePerGroup ==
    [][ /\ Handoff => /\ BufferLen(audio_buffer) = group_samples
                      /\ ~group_handed
        /\ Discard => ~LongEnough(group_samples) ]_vars

\* C2: every utterance handed to speech-to-text has at least the minimum
\* duration; a shorter buffer is never handed on (no speech-to-text call, no
\* reply), and the buffer a finalization drops is a short one.
C2_MinimumDuration ==
    [][ /\ Handoff => LongEnough(BufferLen(audio_buffer))
        /\ (pc = "poll" /\ ~LongEnough(BufferLen(audio_buffer)))
              => /\ pc' = "poll"
                 /\ emitted' = emitted
                 /\ calls' = calls
                 /\ wire_count' = wire_count
        /\ Discard => /\ ~LongEnough(BufferLen(audio_buffer))
                      /\ last_discard' = BufferLen(audio_buffer) ]_vars
\* An utterance was handed on after a short buffer was discarded.
C2_Witness == emitted # <<>> /\ last_discard > 0

\* C3: while every gap between frames has stayed below the silence
\* threshold, nothing was finalized: no utterance handed on, none discarded.
C3_NoFinalizationWithoutGap ==
    long_gaps = 0 => emitted = <<>> /\ last_discard = 0 /\ pc = "poll"
\* Enough frames for an utterance are buffered and the client has been silent
\* for just less than the threshold.
C3_Witness ==
    /\ long_gaps = 0
    /\ Len(audio_buffer) >= MinFrames
    /\ silence_ms = silence_threshold_ms - PollTimeoutMs
    /\ arrival_gap_ms = silence_ms

\* C4: an utterance is handed on once: no frame of a handed utterance is in
\* an earlier one, the buffer is empty when its processing ends, and a poll
\* timeout on an empty buffer hands nothing on.
C4_EmittedOnce ==
    [][ /\ Handoff =>
              \A k \in 1..Len(audio_buffer) : \A u \in 1..Len(emitted) :
                  \A q \in 1..Len(emitted[u]) :
                      emitted[u][q] # audio_buffer[k].id
        /\ Finished => audio_buffer' = <<>>
        /\ (pc = "poll" /\ audio_buffer = <<>> /\ audio_queue' = audio_queue)
              => emitted' = emitted ]_vars
\* After a handoff the loop has polled an empty queue twice.
C4_Witness ==
    /\ emitted # <<>>
    /\ pc = "poll"
    /\ audio_buffer = <<>>
    /\ idle_polls = 2

\* C31: a reply is dispatched only for an emitted utterance whose
\* transcription is not empty, and at most one per emitted utterance: every
\* call of send_audio is made at the return of speech-to-text, and there are
\* never more calls than utterances; when the transcription is empty or
\* fails, no call is made, nothing is sent and the buffer is cleared.
C31_ReplyOnlyForText ==
    /\ [](calls <= Len(emitted))
    /\ [][ /\ calls' # calls => (pc = "stt" /\ calls' = calls + 1)
           /\ \A outcome \in {"empty", "error"} :
                 SttReturn(outcome) =>
                     /\ calls' = calls
                     /\ wire_count' = wire_count
                     /\ send_pc' = send_pc
                     /\ audio_buffer' = <<>> ]_vars
\* Two utterances were emitted and one reply dispatched: the other
\* transcription was empty or failed, and its buffer is cleared.
C31_Witness ==
    /\ Len(emitted) = 2
    /\ calls = 1
    /\ pc = "poll"
    /\ audio_buffer = <<>>
    /\ idle_polls = 0

\* The utterances whose processing has ended: while the loop is busy the
\* last emitted utterance is the buffer itself.
PastEmitted ==
    IF pc \in {"stt", "send"} THEN SubSeq(emitted, 1, Len(emitted) - 1)
    ELSE emitted
\* The places a frame can be in, as sequences of frame ids.
Places ==
    <<FrameIds(audio_queue), FrameIds(audio_buffer)>> \o PastEmitted
        \o discarded
RECURSIVE TotalLen(_)
TotalLen(seqs) ==
    IF seqs = <<>> THEN 0 ELSE Len(Head(seqs)) + TotalLen(Tail(seqs))
IdsIn(seqs) ==
    UNION {{seqs[p][k] : k \in 1..Len(seqs[p])} : p \in 1..Len(seqs)}

\* C36: every frame that was put on the handoff queue is in exactly one
\* place, with the samples it came with: in the queue, in the utterance
\* buffer, in an utterance handed to speech-to-text or in a buffer discarded
\* as too short; the places hold each received frame and as many entries as
\* frames were received.
C36_SampleConservation ==
    /\ IdsIn(Places) = 1..received
    /\ TotalLen(Places) = received
    /\ \A k \in 1..Len(audio_queue) :
          2 * audio_queue[k].n = MAX_PACKET_SIZE - HeaderSize
    /\ \A k \in 1..Len(audio_buffer) :
          2 * audio_buffer[k].n = MAX_PACKET_SIZE - HeaderSize
\* Frames are in all four places: one buffer was discarded, one utterance
\* was processed, and frames of the next are in the buffer and the queue.
C36_Witness ==
    /\ discarded # <<>>
    /\ PastEmitted # <<>>
    /\ audio_buffer # <<>>
    /\ audio_queue # <<>>

\* C37: utterance boundaries follow the times at which frames reached the
\* socket: a frame that arrived more than the silence threshold after the
\* frame before it starts an utterance of its own, so it is never in one
\* buffer or one emitted utterance behind an earlier frame, also when both
\* were received while the loop was busy with an earlier utterance.
C37_BoundariesFollowArrival ==
    /\ \A k \in 2..Len(audio_buffer) : audio_buffer[k].id \notin group_starts
    /\ \A u \in 1..Len(emitted) :
          \A k \in 2..Len(emitted[u]) : emitted[u][k] \notin group_starts

\* C15: the handoff queue is bounded: however long the processing loop is
\* busy, fewer frames wait in it than MaxQueue, the most the model lets
\* wait (queue.Queue() itself has no limit).
C15_QueueBounded == pc \in {"stt", "send"} => Len(audio_queue) < MaxQueue

\* C16: the receive loop never waits for the processing loop: whenever the
\* running flag is set (and the bounds of the model leave room for one more
\* datagram) a datagram can be received, whatever the processing loop is
\* doing.
C16_IngressNeverBlocks ==
    (running /\ sock_open /\ recv_pc = "loop" /\ received < MaxFrames
        /\ Len(audio_queue) < MaxQueue) => ENABLED Receive
\* The processing loop is inside speech-to-text, a frame received meanwhile
\* waits in the queue, and the next datagram can be received.
C16_Witness ==
    /\ pc = "stt"
    /\ Len(audio_queue) = 1
    /\ received < MaxFrames
    /\ ENABLED Receive

\* C17: frames received while an utterance is processed are kept: while the
\* loop is busy the queue only grows, the buffer cleared at the end of the
\* processing holds the frames of the processed utterance and no other, the
\* clearing leaves the queue alone, and a frame taken from the queue
\* afterwards goes into the buffer.
C17_BusyFramesKept ==
    [][ /\ pc # "poll" =>
              /\ Len(audio_queue') >= Len(audio_queue)
              /\ SubSeq(audio_queue', 1, Len(audio_queue)) = audio_queue
        /\ Finished =>
              /\ FrameIds(audio_buffer) = emitted[Len(emitted)]
              /\ audio_queue' = audio_queue
        /\ (pc = "poll" /\ audio_queue # <<>>
               /\ audio_queue' = Tail(audio_queue)) =>
              audio_buffer' = Append(audio_buffer, Head(audio_queue)) ]_vars
\* The processing of an utterance has just ended (no poll since the
\* handoff, buffer cleared) and a frame that arrived before time last
\* passed, so during the processing, is still in the queue.
C17_Witness ==
    /\ pc = "poll"
    /\ emitted # <<>>
    /\ audio_buffer = <<>>
    /\ idle_polls = 0
    /\ audio_queue # <<>>
    /\ arrival_gap_ms > 0

\* C18: the frames of every emitted utterance are in the order in which the
\* receive loop got them, none missing in between, and utterances are
\* emitted in that order too.
C18_ArrivalOrder ==
    \A u \in 1..Len(emitted) :
        /\ \A k \in 1..(Len(emitted[u]) - 1) :
              emitted[u][k + 1] = emitted[u][k] + 1
        /\ u > 1 => emitted[u][1] > emitted[u - 1][Len(emitted[u - 1])]
\* Two utterances have been emitted, the second one after a short group
\* was discarded.
C18_Witness ==
    /\ Len(emitted) = 2
    /\ Len(emitted[2]) >= MinFrames
    /\ emitted[2][1] > emitted[1][Len(emitted[1])] + 1

\* C20: when speech-to-text, text-to-speech or the dispatch raises, the
\* exception is caught: the step that logs it clears the buffer, resets
\* the processing flag and puts the loop back at its poll with the queue
\* untouched, so that later frames are segmented as before.
C20_FailureCaught ==
    [][ process_errors' # process_errors =>
            /\ pc \in {"stt", "send"}
            /\ pc' = "poll"
            /\ audio_buffer' = <<>>
            /\ processing' = FALSE
            /\ audio_queue' = audio_queue ]_vars
\* The processing of the first utterance failed (an error was logged), and
\* a second utterance has been segmented from later frames and handed
\* to speech-to-text since.
C20_Witness ==
    /\ pc = "stt"
    /\ Len(emitted) = 2
    /\ process_errors = 1
    /\ Len(audio_buffer) >= MinFrames

\* -------------------------------------------------------- SpecSend
\* send_audio called by itself on replies of up to MaxChunks chunks, while the
\* ingress thread receives header-only datagrams that bind the client; no
\* processing loop runs, so at most MaxQueue datagrams are received.
MaxChunks == 3
MaxReplies == 2

ReplyLens ==
    {k * chunk_size + d : k \in 0..(MaxChunks - 1), d \in {0, 1, chunk_size - 1}}
        \cup {MaxChunks * chunk_size}
Replies == [dtype : {"int16", "float64"}, len : ReplyLens]

\* Wall clocks at the call: shortly after the epoch, 18 ms before the largest
\* uint32 of milliseconds (1970-02-19), and 2025-11-05.
SendClocks ==
    {[sec |-> 1000, ms |-> 0],
     [sec |-> UInt32MaxSec, ms |-> UInt32MaxMs - SleepMs],
     [sec |-> 1762300800, ms |-> 0]}
SendDatagrams ==
    {[addr |-> a, wire_len |-> HeaderSize, data_size |-> 0] : a \in Addrs}

InitSend == InitWith(SendClocks, {<<>>})

Bind ==
    \E d \in SendDatagrams : receive_audio(d)

Dispatch ==
    \E r \in Replies :
        /\ send_pc = "idle"
        /\ calls < MaxReplies
        /\ SendBegin(r)
        /\ UNCHANGED <<servervars, loopvars, received, arrival_gap_ms,
                       group_frames, group_samples,
                   group_starts, group_handed, long_gaps,
                       idle_polls, emitted, last_discard, discarded,
                       codecvars, mdnsvars, streamvars, lifevars>>

SendStep ==
    /\ send_pc = "loop"
    /\ SendChunk
    /\ UNCHANGED <<servervars, loopvars, received, arrival_gap_ms,
                   group_frames, group_samples,
                   group_starts, group_handed, long_gaps,
                   idle_polls, emitted, last_discard,
                   discarded, calls, call_client,
                   codecvars, mdnsvars, streamvars, lifevars>>

\* send_audio is left (by return or by the exception): its locals are gone.
SendLeave ==
    /\ send_pc \in {"returned", "raised"}
    /\ send_pc' = "idle"
    /\ audio_samples' = NoReply
    /\ offset' = 0
    /\ sequence' = 0
    /\ sent' = <<>>
    /\ UNCHANGED <<servervars, loopvars, clock_ms, histvars,
                   codecvars, mdnsvars, streamvars, lifevars>>

NextSend ==
    \/ Bind
    \/ Dispatch
    \/ SendStep
    \/ SendLeave

SpecSend == InitSend /\ [][NextSend]_vars

\* ------------------------------------------------ dispatch properties
\* The call of send_audio has ended, by return or by an exception.
CallEnded == send_pc \in {"returned", "raised"}
\* The call was made with a client endpoint bound.
CallBound == call_client # None
CeilDiv(a, b) == (a + b - 1) \div b
\* The packet carries a mark that it is the last of its reply.
MarkedFinal(p) == "is_final" \in DOMAIN p /\ p.is_final

\* C5: a reply of L samples dispatched to a bound client goes out as
\* ceil(L / 320) chunks with the sequence numbers 0, 1, ..., n-1 in order.
C5_ChunksInOrder ==
    (CallEnded /\ CallBound) =>
        /\ Len(sent) = CeilDiv(audio_samples.len, chunk_size)
        /\ \A k \in 1..Len(sent) : sent[k].sequence = k - 1

\* C6: the byte length declared for the final chunk of a reply of L > 0
\* samples is its length before padding, 2 * (L mod 320) or the nominal 640
\* when 320 divides L; every earlier chunk declares the nominal length.
C6_FinalChunkDeclaresOwnLength ==
    (send_pc = "returned" /\ CallBound /\ Len(sent) > 0) =>
        LET L == audio_samples.len
            n == Len(sent)
            last == IF L % chunk_size = 0 THEN chunk_size ELSE L % chunk_size
        IN  /\ sent[n].data_size = 2 * last
            /\ \A k \in 1..(n - 1) : sent[k].data_size = 2 * chunk_size

\* C7: every packet of a reply carries 320 samples, and the payloads in order
\* are the L samples of the reply followed by zeros.
C7_PayloadsReproduceReply ==
    (CallEnded /\ CallBound) =>
        LET L == audio_samples.len IN
        /\ \A k \in 1..Len(sent) :
              /\ Len(sent[k].payload) = chunk_size
              /\ \A j \in 1..chunk_size :
                    (k - 1) * chunk_size + j > L => sent[k].payload[j] = 0
        /\ Len(sent) * chunk_size >= L
        /\ \A i \in 0..(L - 1) :
              sent[(i \div chunk_size) + 1].payload[(i % chunk_size) + 1]
                  = PcmSample(audio_samples, i)

\* C8: in a dispatched reply the last chunk is marked final and no other is.
C8_OnlyLastChunkFinal ==
    (send_pc = "returned" /\ CallBound /\ Len(sent) > 0) =>
        \A k \in 1..Len(sent) : MarkedFinal(sent[k]) <=> k = Len(sent)

\* C9: a call of send_audio while no client is bound returns at once: no
\* packet goes out, no exception is raised, and the endpoint, the sequence
\* number and the other locals of send_audio are as before.
C9_UnboundDispatchIsNoOp ==
    [][ (calls' = calls + 1 /\ client_address = None) =>
            /\ send_pc' = "returned"
            /\ wire_count' = wire_count
            /\ sent' = sent
            /\ client_address' = None
            /\ sequence' = sequence
            /\ offset' = offset
            /\ audio_samples' = audio_samples ]_vars
\* A call made with no client bound has returned.
C9_Witness ==
    /\ calls > 0
    /\ call_client = None
    /\ client_address = None
    /\ send_pc = "returned"
    /\ wire_count = 0

\* C14: there is one client endpoint, and it is the source address of the
\* datagram received last: a datagram from another address replaces the
\* endpoint, a datagram from the endpoint's address leaves it as it is, and
\* nothing but a received datagram changes it.
C14_EndpointIsLatestSender ==
    [][ /\ \A d \in SendDatagrams :
              receive_audio(d) =>
                  /\ client_address' = d.addr
                  /\ d.addr = client_address => UNCHANGED client_address
        /\ client_address' # client_address =>
              \E d \in SendDatagrams : receive_audio(d)
        /\ client_address' \in Addrs \cup {None} ]_vars
\* The endpoint was "esp32" when a call of send_audio began and a datagram
\* from "other" has replaced it since.
C14_Witness ==
    /\ received = 2
    /\ call_client = "esp32"
    /\ client_address = "other"

\* C35: all chunks of one call of send_audio go to one endpoint, the one
\* that was bound when the call began, also when a datagram from another
\* address rebinds the endpoint while the reply is dispatched.
C35_OneEndpointPerCall ==
    \A k \in 1..Len(sent) : sent[k].dest = call_client

\* C29: whenever send_audio is about to encode a chunk, the timestamp it
\* reads from the wall clock (milliseconds since the epoch) fits the
\* unsigned 32-bit field of the header, so that the pack cannot fail on it.
C29_TimestampFits ==
    (send_pc = "loop" /\ call_client # None) => FitsUInt32(clock_ms)

\* ------------------------------------------------------ SpecRebind
\* send_audio called on replies of one chunk while the ingress thread
\* receives up to MaxQueue datagrams from either address: header-only ones,
\* ones shorter than the header and ones with an odd payload.
RebindShapes ==
    {<<HeaderSize, 0>>, <<HeaderSize - 4, 0>>, <<HeaderSize + 3, 3>>}
RebindDatagrams ==
    {[addr |-> a, wire_len |-> sh[1], data_size |-> sh[2]] :
        a \in Addrs, sh \in RebindShapes}
RebindReplies == [dtype : {"int16", "float64"}, len : {1, chunk_size}]

BindAny ==
    \E d \in RebindDatagrams : received < MaxQueue /\ receive_audio(d)

DispatchOne ==
    \E r \in RebindReplies :
        /\ send_pc = "idle"
        /\ calls < MaxReplies
        /\ SendBegin(r)
        /\ UNCHANGED <<servervars, loopvars, received, arrival_gap_ms,
                       group_frames, group_samples, group_starts,
                       group_handed, long_gaps, idle_polls, emitted,
                       last_discard, discarded, codecvars, mdnsvars,
                       streamvars, lifevars>>

NextRebind ==
    \/ BindAny
    \/ DispatchOne
    \/ SendStep
    \/ SendLeave

SpecRebind == InitSend /\ [][NextRebind]_vars

\* C38: the endpoint is rebound before the datagram is validated: a
\* datagram that is discarded (shorter than the header, or failing to
\* decode) puts nothing on the queue and still makes its source address the
\* endpoint, and every chunk dispatched goes to the endpoint of that moment.
C38_RebindBeforeValidation ==
    [][ /\ \A d \in RebindDatagrams :
              (receive_audio(d) /\ ~Decodes(d)) =>
                  /\ client_address' = d.addr
                  /\ audio_queue' = audio_queue
        /\ Len(sent') = Len(sent) + 1 =>
              sent'[Len(sent')].dest = client_address ]_vars
\* Only discarded datagrams were received, the last one from "other", and
\* a chunk went to "other".
C38_Witness ==
    /\ received = 2
    /\ audio_queue = <<>>
    /\ call_client = "other"
    /\ sent # <<>>
    /\ sent[1].dest = "other"

\* -------------------------------------------------------- SpecWrap
\* send_audio in the middle of a reply of more than 65536 chunks, from up to
\* MaxWrapChunks iterations before its counter reaches 65536; `sent` holds
\* the packets from that iteration on and wire_count all packets of the call.
MaxWrapChunks == 3

WrapStarts == (UInt16Max + 1 - MaxWrapChunks)..UInt16Max
WrapLens ==
    {(UInt16Max + 1) * chunk_size + k * chunk_size + d :
        k \in 0..1, d \in {1, chunk_size}}
WrapReplies == [dtype : {"int16", "float64"}, len : WrapLens]
\* Wall clocks at which every timestamp of the call fits the header.
WrapClocks == {[sec |-> 2000000, ms |-> 0], [sec |-> 4000000, ms |-> 500]}

InitWrap ==
    /\ InitRest(WrapClocks, {<<>>})
    /\ client_address = "esp32"
    /\ call_client = "esp32"
    /\ calls = 1
    /\ send_pc = "loop"
    /\ audio_samples \in WrapReplies
    /\ sequence \in WrapStarts
    /\ offset = sequence * chunk_size
    /\ wire_count = sequence
    /\ sent = <<>>

NextWrap ==
    \/ SendStep
    \/ SendLeave

SpecWrap == InitWrap /\ [][NextWrap]_vars

\* The number of the chunk that the j-th logged packet of the call carries.
ChunkIndex(j) == wire_count - Len(sent) + j - 1

\* C28: the sequence number in the header is a 16-bit wrapping counter: in
\* a reply of more than 65536 chunks, chunk k carries k mod 2^16 and the
\* dispatch goes on past the wrap without failing.
C28_SequenceWraps ==
    (CallBound /\ audio_samples.len > (UInt16Max + 1) * chunk_size) =>
        /\ send_pc # "raised"
        /\ \A j \in 1..Len(sent) :
              sent[j].sequence = ChunkIndex(j) % (UInt16Max + 1)

\* ------------------------------------------------------- SpecCodec
\* One datagram of up to MaxPayloadBytes payload bytes is parsed as
\* receive_audio parses it and re-encoded as send_audio serializes.
MaxPayloadBytes == 4

ByteChoices == {0, 128, 255}
TimestampBytes == {<<0, 0, 0, 0>>, <<1, 2, 3, 4>>, <<0, 0, 0, 128>>,
                   <<255, 255, 255, 255>>}
SequenceBytes == {<<0, 0>>, <<1, 2>>, <<255, 255>>}
Payloads == UNION {[1..n -> ByteChoices] : n \in 0..MaxPayloadBytes}
\* The declared payload size: the actual one, two more (a truncated
\* datagram), or one less.
DeclaredSizes(n) == {n, n + 2} \cup (IF n > 0 THEN {n - 1} ELSE {})
CodecPackets ==
    {t \o q \o PackU16(z) \o b :
        t \in TimestampBytes, q \in SequenceBytes,
        <<b, z>> \in UNION {{<<b0, z0>> : z0 \in DeclaredSizes(Len(b0))} : b0 \in Payloads}}

InitCodec == InitWith(PipelineClocks, CodecPackets)

\* The parser of receive_audio applied to the datagram.
Decode ==
    /\ codec_pc = "received"
    /\ IF TooShortToParse(packet) \/ FrombufferRaises(AudioData(packet))
       THEN /\ codec_pc' = "failed"
            /\ decoded' = decoded
       ELSE /\ codec_pc' = "decoded"
            /\ decoded' = ParsePacket(packet)
    /\ UNCHANGED <<servervars, loopvars, sendvars, histvars, packet, reencoded,
                   lifevars, mdnsvars, streamvars>>

\* The serializer of send_audio applied to the parsed fields and samples.
Encode ==
    /\ codec_pc = "decoded"
    /\ reencoded' = SerializePacket(decoded.timestamp, decoded.sequence,
                                    decoded.samples)
    /\ codec_pc' = "done"
    /\ UNCHANGED <<servervars, loopvars, sendvars, histvars, packet, decoded,
                   lifevars, mdnsvars, streamvars>>

NextCodec ==
    \/ Decode
    \/ Encode

SpecCodec == InitCodec /\ [][NextCodec]_vars

\* ---------------------------------------------------- codec properties
CodecEnded == codec_pc \in {"failed", "done"}
\* The size field of the datagram, bytes 7 and 8, equals its payload length.
Consistent(p) ==
    /\ Len(p) >= HeaderSize
    /\ p[7] + 256 * p[8] = Len(p) - HeaderSize

\* C10 as stated: every datagram whose declared payload size equals its
\* length minus 8 decodes, and re-encoding the decoded fields and samples
\* gives back the datagram byte for byte.
C10_RoundTrip ==
    (CodecEnded /\ Consistent(packet)) =>
        /\ codec_pc = "done"
        /\ reencoded = packet

\* C10, amended: every datagram whose declared payload size equals its length
\* minus 8 and is even (a whole number of 16-bit samples) decodes, and
\* re-encoding the decoded fields and samples gives back the datagram byte
\* for byte.
C10_RoundTripWholeSamples ==
    (CodecEnded /\ Consistent(packet) /\ (Len(packet) - HeaderSize) % 2 = 0) =>
        /\ codec_pc = "done"
        /\ reencoded = packet

\* A datagram with two samples, one of them negative, and a timestamp above
\* 2^31 has gone through the parser and the serializer unchanged.
C10_Witness ==
    /\ codec_pc = "done"
    /\ Consistent(packet)
    /\ Len(decoded.samples) = 2
    /\ \E k \in 1..2 : decoded.samples[k] < 0
    /\ decoded.timestamp.sec > 2147483
    /\ decoded.sequence > 255
    /\ reencoded = packet

\* ----------------------------------------------------- SpecShutdown
\* SIGINT while the server runs.  Python raises KeyboardInterrupt in the main
\* thread, which is inside process_audio_stream: raised in the try body it
\* is caught at line 279 and the loop is left by break; raised inside the
\* queue.Empty handler (transcribe, text_to_speech, send_audio) it is no
\* Exception, is not caught at line 272 and leaves the function.  Either way
\* run() goes on with its finally clause.
Signal ==
    /\ ~sigint
    /\ pc \in {"poll", "stt", "send"}
    /\ sigint' = TRUE
    /\ UNCHANGED <<servervars, loopvars, sendvars, histvars, codecvars,
                   mdnsvars, streamvars,
                   running, sock_open, recv_pc, mdns, receive_errors,
                   process_errors>>

KeyboardInterrupt ==
    /\ sigint
    /\ pc \in {"poll", "stt", "send"}
    /\ pc' = "finally"
    /\ send_pc' = IF send_pc = "loop" THEN "raised" ELSE send_pc
    /\ UNCHANGED <<servervars, audio_buffer, silence_ms, processing,
                   audio_samples, offset, sequence, sent, clock_ms, histvars,
                   codecvars, mdnsvars, streamvars, lifevars>>

\* Line 181: if self.zeroconf and self.service_info
HoldsService == zeroconf /\ service_info

\* _stop_mdns_advertising: unregister and close; its own errors are caught.
StopMdns ==
    /\ pc = "finally"
    /\ pc' = "stop"
    /\ IF HoldsService
       THEN /\ unregister_calls' = unregister_calls + 1
            /\ mdns' = IF mdns = "advertising" THEN "stopped" ELSE mdns
       ELSE UNCHANGED <<unregister_calls, mdns>>
    /\ UNCHANGED <<servervars, audio_buffer, silence_ms, processing, sendvars,
                   histvars, codecvars, zeroconf, service_info, mdns_enabled,
                   start_error, streamvars, running, sock_open, recv_pc,
                   sigint, receive_errors, process_errors>>

\* Mutant: stop() does not clear the flag.
RunningAfterStop_Set == TRUE
\* self.running.clear()
RunningAfterStop == FALSE

\* Line 108.  The receive thread is at its loop test or inside recvfrom.
ClearRunning ==
    /\ pc = "stop"
    /\ pc' = "close"
    /\ running' = RunningAfterStop
    /\ recv_pc' \in (IF recv_pc = "loop" THEN {"loop", "inflight"}
                     ELSE {recv_pc})
    /\ UNCHANGED <<servervars, audio_buffer, silence_ms, processing, sendvars,
                   histvars, codecvars,
                   mdnsvars, streamvars, sock_open, mdns, sigint,
                   receive_errors, process_errors>>

\* Line 109: self.sock.close()
CloseSocket ==
    /\ pc = "close"
    /\ pc' = "exited"
    /\ sock_open' = FALSE
    /\ UNCHANGED <<servervars, audio_buffer, silence_ms, processing, sendvars,
                   histvars, codecvars,
                   mdnsvars, streamvars, running, recv_pc, mdns, sigint,
                   receive_errors, process_errors>>

\* recvfrom ends with socket.timeout after 0.1 s: continue.
ReceiveTimeout ==
    /\ recv_pc = "inflight"
    /\ recv_pc' = "loop"
    /\ UNCHANGED <<servervars, loopvars, sendvars, histvars, codecvars,
                   mdnsvars, streamvars,
                   running, sock_open, mdns, sigint, receive_errors,
                   process_errors>>

\* while self.running.is_set() finds the flag cleared.
ReceiverExit ==
    /\ recv_pc = "loop"
    /\ ~running
    /\ recv_pc' = "exited"
    /\ UNCHANGED <<servervars, loopvars, sendvars, histvars, codecvars,
                   mdnsvars, streamvars,
                   running, sock_open, mdns, sigint, receive_errors,
                   process_errors>>

\* Socket errors of the receive loop in one behaviour.
MaxSocketErrors == 2

\* The client sends one utterance of MinFrames frames and is silent before
\* and after it.
ReceiveBurst == received < MinFrames /\ Receive
BurstPoll == received \in {0, MinFrames} /\ GetEmpty
SocketFault ==
    /\ receive_errors < MaxSocketErrors
    /\ SocketError
\* The recvfrom the thread was in when the flag was cleared ends: with a
\* datagram, with the timeout, or with an error.
InflightEnds ==
    /\ recv_pc = "inflight"
    /\ Receive \/ ReceiveTimeout \/ SocketError

NextShutdown ==
    \/ ReceiveBurst
    \/ GetFrame
    \/ BurstPoll
    \/ Elapse
    \/ Transcribed
    \/ DispatchChunk
    \/ SocketFault
    \/ Signal
    \/ KeyboardInterrupt
    \/ StopMdns
    \/ ClearRunning
    \/ CloseSocket
    \/ ReceiveTimeout
    \/ ReceiverExit

\* The main thread runs on once the signal is there, and the receive thread
\* gets out of recvfrom (its timeout is 0.1 s) and to its loop test.
SpecShutdown ==
    /\ Init
    /\ [][NextShutdown]_vars
    /\ WF_vars(KeyboardInterrupt)
    /\ WF_vars(StopMdns)
    /\ WF_vars(ClearRunning)
    /\ WF_vars(CloseSocket)
    /\ WF_vars(InflightEnds)
    /\ WF_vars(ReceiverExit)

\* C19: after the shutdown signal the processing loop is left, the
\* advertisement is stopped, the running flag is cleared, the socket is
\* closed and the receive loop exits.
C19_ShutdownCompletes ==
    sigint ~> /\ pc = "exited"
              /\ mdns = "stopped"
              /\ ~running
              /\ ~sock_open
              /\ recv_pc = "exited"
\* Shutdown is complete after a signal that came while the reply to an
\* utterance was processed; the receive thread was inside recvfrom when the
\* flag was cleared and saw the socket closed under it.
C19_Witness ==
    /\ pc = "exited"
    /\ recv_pc = "exited"
    /\ ~sock_open
    /\ emitted # <<>>
    /\ receive_errors > 0

\* ------------------------------------------------------ SpecStartup
\* main(): HowdyTTSESP32Integration(enable_mdns) is constructed, each call
\* inside _start_mdns_advertising succeeds or raises, and run() follows with
\* a client that sends one utterance and a SIGINT at any time.
StartFrame ==
    UNCHANGED <<servervars, audio_buffer, silence_ms, processing, sendvars,
                histvars, codecvars, streamvars, running, sock_open, sigint,
                receive_errors, process_errors, unregister_calls>>

\* Mutant: _start_mdns_advertising has no handler; the exception leaves
\* __init__.
StartErrorCaught_Never == FALSE
\* Lines 163-165: except Exception
StartErrorCaught == TRUE

\* A call inside the try of _start_mdns_advertising raises.
OnStartError(call) ==
    /\ start_error' = call
    /\ IF StartErrorCaught
       THEN /\ mdns_enabled' = FALSE
            /\ pc' = "thread"
       ELSE /\ pc' = "crashed"
            /\ UNCHANGED mdns_enabled

\* Line 126 with mdns_enabled false: the advertisement is not started.
SkipMdns ==
    /\ pc = "init"
    /\ ~mdns_enabled
    /\ pc' = "thread"
    /\ UNCHANGED <<recv_pc, mdns, mdnsvars>>
    /\ StartFrame

\* Line 140: self.zeroconf = Zeroconf()
CreateZeroconf ==
    /\ pc = "init"
    /\ mdns_enabled
    /\ \/ /\ zeroconf' = TRUE
          /\ pc' = "mdns_info"
          /\ UNCHANGED <<mdns_enabled, start_error>>
       \/ /\ OnStartError("Zeroconf")
          /\ UNCHANGED zeroconf
    /\ UNCHANGED <<recv_pc, mdns, service_info>>
    /\ StartFrame

\* Lines 143-157: the local address and self.service_info = ServiceInfo(...)
CreateServiceInfo ==
    /\ pc = "mdns_info"
    /\ \/ /\ service_info' = TRUE
          /\ pc' = "mdns_register"
          /\ UNCHANGED <<mdns_enabled, start_error>>
       \/ /\ OnStartError("ServiceInfo")
          /\ UNCHANGED service_info
    /\ UNCHANGED <<recv_pc, mdns, zeroconf>>
    /\ StartFrame

\* Line 160: self.zeroconf.register_service(self.service_info)
RegisterService ==
    /\ pc = "mdns_register"
    /\ \/ /\ mdns' = "advertising"
          /\ pc' = "thread"
          /\ UNCHANGED <<mdns_enabled, start_error>>
       \/ /\ OnStartError("register_service")
          /\ UNCHANGED mdns
    /\ UNCHANGED <<recv_pc, zeroconf, service_info>>
    /\ StartFrame

\* Lines 130-131: the receiver thread is started; main() calls run().
StartReceiver ==
    /\ pc = "thread"
    /\ recv_pc' = "loop"
    /\ pc' = "poll"
    /\ UNCHANGED <<mdns, mdnsvars>>
    /\ StartFrame

InitStartup ==
    /\ InitSendIdle
    /\ InitCore(PipelineClocks, {<<>>})
    /\ InitStreamIdle
    /\ pc = "init"
    /\ recv_pc = "unstarted"
    /\ mdns = "none"
    /\ zeroconf = FALSE
    /\ service_info = FALSE
    /\ mdns_enabled \in BOOLEAN
    /\ start_error = "none"

NextStartup ==
    \/ SkipMdns
    \/ CreateZeroconf
    \/ CreateServiceInfo
    \/ RegisterService
    \/ StartReceiver
    \/ NextShutdown

SpecStartup == InitStartup /\ [][NextStartup]_vars

\* C26: stopping the advertisement when no service was registered (it was
\* never started, or its registration failed) is a no-op: as long as no
\* service was registered, no unregister call is made.
C26_StopWithoutServiceIsNoOp ==
    mdns = "none" => unregister_calls = 0

\* C27: if the start of the advertisement fails, discovery is disabled and
\* the server does not crash: initialization goes on to start the receiver
\* thread, and the thread runs once the processing loop is entered.
C27_StartFailureTolerated ==
    start_error # "none" =>
        /\ ~mdns_enabled
        /\ pc # "crashed"
        /\ pc = "thread" => ENABLED StartReceiver
        /\ pc \in {"poll", "stt", "send"} => recv_pc = "loop"

\* After register_service raised, the server received an utterance and
\* handed it to speech-to-text.
C27_Witness ==
    /\ start_error = "register_service"
    /\ ~mdns_enabled
    /\ emitted # <<>>

\* -------------------------------------------------------- SpecStopTwice
\* The advertisement is stopped again after run() has stopped it: a second
\* call of _stop_mdns_advertising (or of HowdyTTSMDNSAdvertiser.stop, whose
\* test is the same) by the owner of the server.
MaxStopCalls == 2

\* Lines 179-187, called once more.  The fields zeroconf and service_info
\* are as the first call left them.
StopMdnsAgain ==
    /\ pc \in {"stop", "close", "exited"}
    /\ unregister_calls < MaxStopCalls
    /\ IF HoldsService
       THEN /\ unregister_calls' = unregister_calls + 1
            /\ mdns' = IF mdns = "advertising" THEN "stopped" ELSE mdns
       ELSE UNCHANGED <<unregister_calls, mdns>>
    /\ UNCHANGED <<servervars, loopvars, sendvars, histvars, codecvars,
                   zeroconf, service_info, mdns_enabled, start_error,
                   streamvars, running, sock_open, recv_pc, sigint,
                   receive_errors, process_errors>>

NextStopTwice ==
    \/ NextShutdown
    \/ StopMdnsAgain

SpecStopTwice == Init /\ [][NextStopTwice]_vars

\* C34: unregistration of the advertisement is idempotent: stopping it a
\* second time makes no further unregister or close call to the discovery
\* service and leaves the state of a single stop.
C34_SecondStopIsNoOp ==
    [][StopMdnsAgain => UNCHANGED <<unregister_calls, mdns>>]_vars

\* ---------------------------------------------------- SpecValidator
\* validate_websocket_tts_handler: one reply session sent over a WebSocket
\* connection.  The connect and every send can raise (the peer is away or
\* closes the connection); the exception ends the run at line 177.
MaxSessionClocks == 5
total_chunks == 10
ChunkBytes == 640
\* len(self.test_audio_16khz): 2000 ms of 16-bit samples at 16 kHz
TestAudioBytes == 64000

\* int(time.time()) when the session id is made
SessionClocks == {1762300800 + k : k \in 0..(MaxSessionClocks - 1)}
ValidatorFrame ==
    UNCHANGED <<servervars, loopvars, sendvars, histvars, codecvars, lifevars,
                mdnsvars, sessionvars, endpointvars>>

\* Lines 89-110
tts_start_message(sid) ==
    [type |-> "tts_audio_start", session_id |-> sid,
     total_chunks_expected |-> total_chunks]
\* Mutant: every chunk is marked final.
IsFinal_Always(seq) == TRUE
\* Line 133: (chunk_seq == total_chunks - 1)
IsFinal(seq) == seq = total_chunks - 1
\* Lines 128-142; the test audio has 64000 bytes, so every slice is whole
tts_chunk_message(sid, seq) ==
    [type |-> "tts_audio_chunk", session_id |-> sid, chunk_sequence |-> seq,
     chunk_size |-> ChunkBytes, is_final |-> IsFinal(seq)]
\* Mutant: the run closes with a second start message.
tts_end_message_AsStart(sid) == tts_start_message(sid)
\* Lines 151-165
tts_end_message(sid) ==
    [type |-> "tts_audio_end", session_id |-> sid,
     total_chunks_sent |-> total_chunks,
     total_audio_bytes |-> TestAudioBytes]

\* Line 84: websockets.connect(uri)
WsConnect ==
    /\ val_pc = "idle"
    /\ val_pc' = "start"
    /\ UNCHANGED <<chunk_seq, session_id, error_count, ws_sent>>
    /\ ValidatorFrame

\* Lines 88-112
WsSendStart ==
    /\ val_pc = "start"
    /\ \E t \in SessionClocks :
          /\ session_id' = t
          /\ ws_sent' = Append(ws_sent, tts_start_message(t))
    /\ chunk_seq' = 0
    /\ val_pc' = IF total_chunks > 0 THEN "chunk" ELSE "end"
    /\ UNCHANGED error_count
    /\ ValidatorFrame

\* Lines 119-148: one iteration of for chunk_seq in range(total_chunks)
WsSendChunk ==
    /\ val_pc = "chunk"
    /\ ws_sent' = Append(ws_sent, tts_chunk_message(session_id, chunk_seq))
    /\ chunk_seq' = chunk_seq + 1
    /\ val_pc' = IF chunk_seq + 1 < total_chunks THEN "chunk" ELSE "end"
    /\ UNCHANGED <<session_id, error_count>>
    /\ ValidatorFrame

\* Lines 150-168
WsSendEnd ==
    /\ val_pc = "end"
    /\ ws_sent' = Append(ws_sent, tts_end_message(session_id))
    /\ val_pc' = "wait"
    /\ UNCHANGED <<chunk_seq, session_id, error_count>>
    /\ ValidatorFrame

\* Lines 170-175: asyncio.sleep(2), return True
WsPass ==
    /\ val_pc = "wait"
    /\ val_pc' = "passed"
    /\ UNCHANGED <<chunk_seq, session_id, error_count, ws_sent>>
    /\ ValidatorFrame

\* Lines 177-181: connect or a send raised
WsFail ==
    /\ val_pc \in {"idle", "start", "chunk", "end"}
    /\ val_pc' = "failed"
    /\ error_count' = error_count + 1
    /\ UNCHANGED <<chunk_seq, session_id, ws_sent>>
    /\ ValidatorFrame

NextValidator ==
    \/ WsConnect
    \/ WsSendStart
    \/ WsSendChunk
    \/ WsSendEnd
    \/ WsPass
    \/ WsFail

SpecValidator == Init /\ [][NextValidator]_vars

\* The positions in ws_sent of the messages of one type.
Positions(type) == {k \in 1..Len(ws_sent) : ws_sent[k].type = type}
Starts == Positions("tts_audio_start")
Chunks == Positions("tts_audio_chunk")
Ends == Positions("tts_audio_end")

\* C21: in a reply session, one start message precedes all chunk messages
\* of its session_id and one end message follows the last chunk: there is no
\* second start or end, no chunk before the start or after the end, and a
\* run that was not cut by the connection has sent the start, all its
\* chunks and the end.
C21_StartChunksEnd ==
    /\ Cardinality(Starts) <= 1
    /\ Cardinality(Ends) <= 1
    /\ \A k \in 1..Len(ws_sent) : ws_sent[k].session_id = session_id
    /\ \A k \in Chunks :
          /\ \E j \in Starts : j < k
          /\ \A e \in Ends : k < e
    /\ \A e \in Ends : \E j \in Starts : j < e
    /\ val_pc \in {"wait", "passed"} =>
          /\ Cardinality(Starts) = 1
          /\ Cardinality(Chunks) = total_chunks
          /\ Ends = {Len(ws_sent)}

\* The run passed: the start, the chunks and the end were sent.
C21_Witness ==
    /\ val_pc = "passed"
    /\ Len(ws_sent) = total_chunks + 2

\* C22: the chunk messages of a session carry chunk_sequence 0, 1, 2, ...,
\* each the number of chunks sent before it, and is_final is set on the last
\* chunk of the session and on no other.
C22_ChunkSequenceGapless ==
    /\ \A k \in Chunks :
          /\ ws_sent[k].chunk_sequence =
                 Cardinality({j \in Chunks : j < k})
          /\ ws_sent[k].is_final => \A j \in Chunks : j <= k
    /\ \A e \in Ends :
          /\ e - 1 \in Chunks
          /\ ws_sent[e - 1].is_final

\* The tenth chunk went out with is_final set, after nine that were not.
C22_Witness ==
    \E k \in Chunks :
        /\ ws_sent[k].is_final
        /\ ws_sent[k].chunk_sequence = total_chunks - 1
        /\ \A j \in Chunks : j < k => ~ws_sent[j].is_final

\* The sum of chunk_size over the chunk messages at positions 1..k.
RECURSIVE ChunkBytesSent(_)
ChunkBytesSent(k) ==
    IF k = 0 THEN 0
    ELSE ChunkBytesSent(k - 1)
             + (IF k \in Chunks THEN ws_sent[k].chunk_size ELSE 0)

\* C32: the counters of the end message match what was sent in its session:
\* total_chunks_sent is the number of chunk messages sent and the
\* total_chunks_expected of the start message, and total_audio_bytes is the
\* sum of chunk_size over those chunk messages.
C32_EndCountersMatch ==
    \A e \in Ends :
        /\ ws_sent[e].total_chunks_sent = Cardinality(Chunks)
        /\ \A j \in Starts :
              ws_sent[e].total_chunks_sent = ws_sent[j].total_chunks_expected
        /\ ws_sent[e].total_audio_bytes = ChunkBytesSent(Len(ws_sent))

\* ----------------------------------------------------- SpecEndpoint
\* websocket_endpoint of the test server.  On one connection up to
\* MaxMessages messages arrive, then the client closes or the socket fails;
\* other clients connect and leave, up to MaxClients connected at a time,
\* while the clock passes MaxSeconds seconds.
MaxMessages == 3
MaxClients == 2
MaxSeconds == 1

\* The payload of a text message: not JSON, a JSON value that is no object
\* (array, number, string, null), or an object with its "type" member
\* ("missing": the object has none).
MessageTypes ==
    {"ping", "text_to_speech", "voice_start", "voice_end", "echo_test",
     "tts_audio_start", "tts_audio_chunk", "tts_audio_end", "missing"}
TextMessages ==
    [form : {"garbage", "array", "number"}, type : {"missing"}]
        \cup [form : {"object"}, type : MessageTypes]

\* Line 264: f"ws_session_{int(time.time())}_{len(self.websocket_clients)}"
SessionIdAt(t, n) == [sec |-> t, n |-> n]
\* client_info['session_id'] of the handler of connection w
SessionIdOf(w) ==
    LET k == CHOOSE k \in 1..Len(websocket_clients) :
                 websocket_clients[k].ws = w
    IN  websocket_clients[k].session_id
\* self.websocket_clients.remove(ws)
Without(w) == SelectSeq(websocket_clients, LAMBDA c : c.ws # w)
Connected == {websocket_clients[k].ws : k \in 1..Len(websocket_clients)}

\* json.loads(msg.data) raises json.JSONDecodeError
JSONDecodeError(text) == text.form = "garbage"
\* data.get('type') raises AttributeError unless data is a dict
GetRaises(text) == text.form # "object"
\* Mutant: every message is answered as a ping.
ReplyType_AllPong(msg_type) == "pong"
\* The type of the reply handle_websocket_message sends for msg_type.
ReplyType(msg_type) ==
    CASE msg_type = "ping" -> "pong"
      [] msg_type = "text_to_speech" -> "tts_response"
      [] msg_type = "voice_start" -> "voice_ready"
      [] msg_type = "voice_end" -> "voice_result"
      [] msg_type = "echo_test" -> "echo_response"
      [] OTHER -> "error"
\* The messages handle_websocket_message sends for msg_type on the
\* connection whose session id is sid; the timestamp is left out.
handle_websocket_message(msg_type, sid) ==
    LET type == ReplyType(msg_type)
    IN  CASE type = "tts_response" ->
                 <<[type |-> type, status |-> "completed"],
                   [type |-> "mock_audio"]>>
          [] type = "voice_ready" -> <<[type |-> type, session_id |-> sid]>>
          [] type = "voice_result" ->
                 <<[type |-> type, text |-> "mock_text", confidence |-> 95,
                    session_id |-> sid]>>
          [] OTHER -> <<[type |-> type]>>

EndpointFrame ==
    UNCHANGED <<servervars, loopvars, sendvars, histvars, codecvars, lifevars,
                mdnsvars, validatorvars, sessionvars>>

\* Lines 283-294: a text message.  JSONDecodeError is handled inside the
\* loop; any other exception is handled at line 301, outside it, and the
\* finally clause takes the connection off the list.
OnText(text) ==
    /\ ws_open
    /\ Len(ws_replies) < MaxMessages
    /\ IF JSONDecodeError(text)
       THEN /\ ws_replies' = Append(ws_replies, [type |-> "error"])
            /\ UNCHANGED <<ws_open, websocket_clients>>
       ELSE IF GetRaises(text)
       THEN /\ ws_replies' = Append(ws_replies, [type |-> "none"])
            /\ ws_open' = FALSE
            /\ websocket_clients' = Without(0)
       ELSE /\ ws_replies' =
                   ws_replies \o
                       handle_websocket_message(text.type, SessionIdOf(0))
            /\ UNCHANGED <<ws_open, websocket_clients>>
    /\ UNCHANGED time_s
    /\ EndpointFrame

TextArrives == \E text \in TextMessages : OnText(text)

\* Lines 295-297 and handle_audio_data: a binary message is acknowledged.
BinaryArrives ==
    /\ ws_open
    /\ Len(ws_replies) < MaxMessages
    /\ ws_replies' = Append(ws_replies, [type |-> "audio_received"])
    /\ UNCHANGED <<ws_open, websocket_clients, time_s>>
    /\ EndpointFrame

\* The client closes (the async for ends) or WSMsgType.ERROR: break, and
\* the finally clause takes the connection off the list.
ConnectionEnds ==
    /\ ws_open
    /\ ws_open' = FALSE
    /\ websocket_clients' = Without(0)
    /\ UNCHANGED <<ws_replies, time_s>>
    /\ EndpointFrame

\* Lines 256-281: one more client connects; its welcome message goes to it.
ClientConnects ==
    /\ Len(websocket_clients) < MaxClients
    /\ LET ws == CHOOSE w \in 1..MaxClients : w \notin Connected
       IN  websocket_clients' =
               Append(websocket_clients,
                      [ws |-> ws,
                       session_id |->
                           SessionIdAt(time_s, Len(websocket_clients))])
    /\ UNCHANGED <<ws_open, ws_replies, time_s>>
    /\ EndpointFrame

\* Lines 304-307: the connection of another client ends.
ClientDisconnects ==
    /\ \E w \in Connected \ {0} : websocket_clients' = Without(w)
    /\ UNCHANGED <<ws_open, ws_replies, time_s>>
    /\ EndpointFrame

\* int(time.time()) reads the next second.
SecondPasses ==
    /\ time_s < 1762300800 + MaxSeconds
    /\ time_s' = time_s + 1
    /\ UNCHANGED <<ws_open, ws_replies, websocket_clients>>
    /\ EndpointFrame

NextEndpoint ==
    \/ TextArrives
    \/ BinaryArrives
    \/ ConnectionEnds
    \/ ClientConnects
    \/ ClientDisconnects
    \/ SecondPasses

SpecEndpoint == Init /\ [][NextEndpoint]_vars

\* The payload cannot be read as a control message.
Malformed(text) == text.form # "object"

\* C25: a text message whose payload cannot be read as a control message
\* (it does not parse, or it parses to something that is no message object)
\* gets an error-typed reply and does not end the connection: the handler
\* stays in its loop for the messages that follow.
C25_MalformedAnsweredConnectionKept ==
    [][ \A text \in TextMessages :
          (OnText(text) /\ Malformed(text)) =>
              /\ ws_replies'[Len(ws_replies')].type = "error"
              /\ ws_open' ]_vars

\* The request types the handler has a branch for.
Recognized ==
    {"ping", "text_to_speech", "voice_start", "voice_end", "echo_test"}

C39_SessionIdsDistinct ==
    \A i, j \in 1..Len(websocket_clients) :
        i # j =>
            websocket_clients[i].session_id # websocket_clients[j].session_id

\* ------------------------------------------------------ SpecSession
\* The receiver of a reply stream for one client: the session state machine
\* Idle -> Streaming -> Idle.  Up to MaxStreamMessages messages of any
\* session, in any order, are sent to it; ws_sent is their log.
MaxStreamMessages == 3
MaxChunkSequence == 2

StreamSessions == {1762300800, 1762300801}
StartMessages == {tts_start_message(sid) : sid \in StreamSessions}
ChunkMessages ==
    [type : {"tts_audio_chunk"}, session_id : StreamSessions,
     chunk_sequence : 0..MaxChunkSequence, chunk_size : {ChunkBytes},
     is_final : BOOLEAN]
EndMessages == {tts_end_message(sid) : sid \in StreamSessions}

SessionFrame ==
    UNCHANGED <<servervars, loopvars, sendvars, histvars, codecvars, lifevars,
                mdnsvars, val_pc, chunk_seq, session_id, error_count,
                endpointvars>>

Streaming == sessions # {}
\* The session a message belongs to, if it is Streaming.
SessionOf(msg) == {ses \in sessions : ses.session_id = msg.session_id}

\* Mutant: a start is accepted whatever the state.
StartAllowed_Always == TRUE
\* Idle --startMessage--> Streaming
StartAllowed == ~Streaming
\* Mutant: a chunk of the session is accepted whatever its number.
InSequence_Any(ses, msg) == TRUE
\* chunk_sequence must equal the count of chunks already sent
InSequence(ses, msg) == msg.chunk_sequence = ses.chunks_sent

Accept(msg, after) ==
    /\ ws_sent' = Append(ws_sent, msg)
    /\ sessions' = after
    /\ response' = "ok"
\* A protocol violation: error-typed response, session state unchanged.
Reject(msg) ==
    /\ ws_sent' = Append(ws_sent, msg)
    /\ response' = "error"
    /\ UNCHANGED sessions

OnStartMessage(msg) ==
    /\ Len(ws_sent) < MaxStreamMessages
    /\ IF StartAllowed
       THEN Accept(msg, sessions \cup
                        {[session_id |-> msg.session_id, chunks_sent |-> 0]})
       ELSE Reject(msg)
    /\ SessionFrame

OnChunkMessage(msg) ==
    /\ Len(ws_sent) < MaxStreamMessages
    /\ IF \E ses \in SessionOf(msg) : InSequence(ses, msg)
       THEN Accept(msg,
                   {IF ses \in SessionOf(msg)
                    THEN [ses EXCEPT !.chunks_sent = @ + 1] ELSE ses :
                        ses \in sessions})
       ELSE Reject(msg)
    /\ SessionFrame

OnEndMessage(msg) ==
    /\ Len(ws_sent) < MaxStreamMessages
    /\ IF SessionOf(msg) # {}
       THEN Accept(msg, sessions \ SessionOf(msg))
       ELSE Reject(msg)
    /\ SessionFrame

StartArrives == \E msg \in StartMessages : OnStartMessage(msg)
ChunkArrives == \E msg \in ChunkMessages : OnChunkMessage(msg)
EndArrives == \E msg \in EndMessages : OnEndMessage(msg)

NextSession ==
    \/ StartArrives
    \/ ChunkArrives
    \/ EndArrives

SpecSession == Init /\ [][NextSession]_vars

\* C23: while a session is Streaming, a chunk message whose chunk_sequence
\* is not the number of chunks accepted for the session so far is rejected
\* with an error-typed response, and chunks_sent of the session is unchanged.
C23_OutOfOrderChunkRejected ==
    [][ \A msg \in ChunkMessages :
          (/\ OnChunkMessage(msg)
           /\ SessionOf(msg) # {}
           /\ \A ses \in SessionOf(msg) :
                 msg.chunk_sequence # ses.chunks_sent) =>
              /\ response' = "error"
              /\ sessions' = sessions ]_vars

\* A session with one chunk accepted was sent chunk 0 again, or chunk 2,
\* and rejected it.
C23_Witness ==
    /\ response = "error"
    /\ Len(ws_sent) > 0
    /\ ws_sent[Len(ws_sent)].type = "tts_audio_chunk"
    /\ \E ses \in SessionOf(ws_sent[Len(ws_sent)]) :
          /\ ses.chunks_sent = 1
          /\ ws_sent[Len(ws_sent)].chunk_sequence # 1

\* C24: at most one reply session is Streaming per client at any time: a
\* start message received while a session is Streaming is rejected, and the
\* session_id and the chunk count of the current session are left as they
\* were.
C24_OneStreamingSession ==
    /\ [](Cardinality(sessions) <= 1)
    /\ [][ \A msg \in StartMessages :
             (OnStartMessage(msg) /\ Streaming) =>
                 /\ response' = "error"
                 /\ sessions' = sessions ]_vars

\* A start message for another session arrived after the first chunk of
\* the current one and was rejected.
C24_Witness ==
    /\ response = "error"
    /\ Len(ws_sent) > 0
    /\ ws_sent[Len(ws_sent)].type = "tts_audio_start"
    /\ \E ses \in sessions :
          /\ ses.chunks_sent = 1
          /\ ses.session_id # ws_sent[Len(ws_sent)].session_id

\* ------------------------------------------------------ SpecIngress
\* The receive loop on up to MaxDatagrams datagrams, well-formed and not,
\* from two senders, and up to MaxSocketErrors socket errors, while the
\* processing loop takes frames from the queue.
MaxDatagrams == 4

\* [wire_len, data_size]: shorter than the header; header only; two samples;
\* payload cut short of the declared size; odd payload; bytes beyond the
\* declared size; longer than recvfrom's buffer.
DatagramShapes ==
    {<<HeaderSize - 4, 0>>, <<HeaderSize, 0>>, <<HeaderSize + 4, 4>>,
     <<HeaderSize + 4, 8>>, <<HeaderSize + 3, 3>>, <<HeaderSize + 4, 2>>,
     <<MAX_PACKET_SIZE + 4, MAX_PACKET_SIZE - 4>>}
IngressDatagrams ==
    {[addr |-> a, wire_len |-> w[1], data_size |-> w[2]] :
        a \in Addrs, w \in DatagramShapes}

Ingest ==
    /\ received < MaxDatagrams
    /\ \E d \in IngressDatagrams : receive_audio(d)
NextIngress ==
    \/ Ingest
    \/ SocketFault
    \/ GetFrame

SpecIngress == Init /\ [][NextIngress]_vars

\* ------------------------------------------------- ingress properties
\* The datagram is shorter than the header.
ShortDatagram(d) == DataLen(d) < HeaderSize
\* The datagram holds fewer payload bytes than its header declares.
TruncatedPayload(d) ==
    DataLen(d) >= HeaderSize /\ DataLen(d) - HeaderSize < d.data_size

\* C11: a datagram shorter than the 8-byte header puts no frame on the
\* queue, is counted as an error, and leaves the receive loop running.
C11_ShortDatagramCounted ==
    [][ \A d \in IngressDatagrams :
          (receive_audio(d) /\ ShortDatagram(d)) =>
              /\ audio_queue' = audio_queue
              /\ receive_errors' = receive_errors + 1
              /\ recv_pc' = "loop" ]_vars

\* C12: while the running flag is set, every fault (a short datagram, a
\* truncated payload, an odd payload, a socket error) adds one to the error
\* count and leaves the receive loop running.
C12_FaultsCountedLoopContinues ==
    [][ /\ \A d \in IngressDatagrams :
              (receive_audio(d) /\ running
                 /\ (ShortDatagram(d) \/ TruncatedPayload(d)
                        \/ RaisesValueError(d))) =>
                  /\ receive_errors' = receive_errors + 1
                  /\ recv_pc' = "loop"
        /\ (SocketError /\ running) =>
              /\ receive_errors' = receive_errors + 1
              /\ recv_pc' = "loop" ]_vars

\* C13: every frame put on the queue has as many samples as the payload
\* size declared in its datagram's header holds: 2 * samples = payload_size.
C13_FrameMatchesDeclaredSize ==
    [][ \A d \in IngressDatagrams :
          (receive_audio(d) /\ Len(audio_queue') = Len(audio_queue) + 1) =>
              2 * audio_queue'[Len(audio_queue')].n = d.data_size ]_vars

\* C30: every frame on the handoff queue holds at most 124 samples, that is
\* 248 payload bytes, whatever the length of the datagram the client sent
\* and whatever payload size its header declares.
C30_FrameAtMost124Samples ==
    \A k \in 1..Len(audio_queue) :
        /\ audio_queue[k].n <= 124
        /\ 2 * audio_queue[k].n <= 248

\* A datagram longer than the receive buffer, declaring more than the
\* buffer holds, was put on the queue as a frame of exactly 124 samples.
C30_Witness ==
    \E k \in 1..Len(audio_queue) : audio_queue[k].n = 124

====
